---- MODULE Spec2Model ----
(* Model of scripts/supabase_setup.py: main() applies supabase/schema.sql   *)
(* to the database named by SUPABASE_DB_URL.  One action per statement of   *)
(* main(); the environment (variable, file, client library) is fixed in     *)
(* Init, the database's answers are chosen at each call.                    *)
EXTENDS Integers, Sequences, FiniteSets, TLC

VARIABLES
    environ,        \* value of SUPABASE_DB_URL in os.environ, or None
    fileExists,     \* schema_path.exists()
    fileReadable,   \* the file can be opened for reading
    fileBytes,      \* the bytes of the file
    libAvailable,   \* "import psycopg" succeeds
    pc,             \* position in main() / the module body
    db_url,         \* local db_url
    sql,            \* local sql
    log,            \* operations performed so far, in order
    out,            \* lines printed so far, in order
    connectArgs,    \* arguments of the psycopg.connect calls, in order
    executeArgs,    \* arguments of the cur.execute calls, in order
    connOpen,       \* number of connections currently open
    curOpen,        \* number of cursors currently open
    exc,            \* exception in flight ("None" when there is none)
    ret,            \* value returned by main(), -1 before it returns
    exitCode        \* exit status of the process, -1 while it runs

vars == <<environ, fileExists, fileReadable, fileBytes, libAvailable, pc,
          db_url, sql, log, out, connectArgs, executeArgs, connOpen, curOpen,
          exc, ret, exitCode>>

world == <<environ, fileExists, fileReadable, fileBytes, libAvailable>>

-----------------------------------------------------------------------------
(* Bounds and input domains *)

MaxLen == 2

None == "<None>"

DbUrls == {"", "postgres://a", "postgres://b"}

LF == 10
CR == 13
SEMI == 59
BAD == 255

Bytes == {LF, CR, SEMI, BAD}

RECURSIVE SeqsUpTo(_)
SeqsUpTo(n) ==
    IF n = 0 THEN {<<>>}
    ELSE LET S == SeqsUpTo(n - 1)
         IN  S \cup {Append(s, b) : s \in {t \in S : Len(t) = n - 1}, b \in Bytes}

Files == SeqsUpTo(MaxLen)

-----------------------------------------------------------------------------
(* Path.read_text(encoding="utf-8"): decode, then universal newlines *)

Utf8Valid(bs) == \A i \in 1..Len(bs) : bs[i] < 128

RECURSIVE Newlines(_)
Newlines(s) ==
    IF s = <<>> THEN <<>>
    ELSE IF Head(s) = CR
         THEN IF Len(s) > 1 /\ s[2] = LF
              THEN <<LF>> \o Newlines(SubSeq(s, 3, Len(s)))
              ELSE <<LF>> \o Newlines(Tail(s))
         ELSE <<Head(s)>> \o Newlines(Tail(s))

read_text(bs) == Newlines(bs)

(* variant: "if db_url is None" instead of "if not db_url" *)
Falsy_NoneOnly(v) == v = None

(* "not db_url" *)
Falsy(v) == v = None \/ v = ""

(* line 43: an exception that leaves main() is not a SystemExit, so the     *)
(* interpreter prints the traceback and ends the process with status 1     *)
UncaughtExitStatus == 1

-----------------------------------------------------------------------------
(* Printed lines *)

MsgNotFound == "schema.sql not found at: <schema_path>"
MsgNotSet == "SUPABASE_DB_URL is not set."
MsgOptionA == "\nOption A (automatic): set SUPABASE_DB_URL and re-run:"
MsgExport == "  export SUPABASE_DB_URL='postgres://postgres:<PASSWORD>@db.<project-ref>.supabase.co:5432/postgres'"
MsgRerun == "  python scripts/supabase_setup.py"
MsgOptionB == "\nOption B (manual): paste the SQL from supabase/schema.sql into the Supabase SQL editor."
MsgMissing == "Missing dependency: psycopg"
MsgInstall == "Install with: pip install psycopg[binary]"
MsgApplying == "Applying supabase/schema.sql ..."
MsgDone == "Done."

-----------------------------------------------------------------------------

Init ==
    /\ environ \in DbUrls \cup {None}
    /\ fileExists \in BOOLEAN
    /\ fileReadable \in BOOLEAN
    /\ fileBytes \in Files
    /\ ~fileExists => (~fileReadable /\ fileBytes = <<>>)
    /\ libAvailable \in BOOLEAN
    /\ pc = "getenv"
    /\ db_url = None
    /\ sql = <<>>
    /\ log = <<>>
    /\ out = <<>>
    /\ connectArgs = <<>>
    /\ executeArgs = <<>>
    /\ connOpen = 0
    /\ curOpen = 0
    /\ exc = "None"
    /\ ret = -1
    /\ exitCode = -1

(* line 7: db_url = os.getenv("SUPABASE_DB_URL") *)
GetEnv ==
    /\ pc = "getenv"
    /\ db_url' = environ
    /\ log' = Append(log, "getenv")
    /\ pc' = "exists"
    /\ UNCHANGED <<world, sql, out, connectArgs, executeArgs, connOpen,
                   curOpen, exc, ret, exitCode>>

(* variant: the test of line 10 inverted *)
CheckExists_Inverted ==
    /\ pc = "exists"
    /\ log' = Append(log, "exists")
    /\ IF fileExists
       THEN /\ out' = Append(out, MsgNotFound)
            /\ ret' = 1
            /\ pc' = "returned"
       ELSE /\ pc' = "read_text"
            /\ UNCHANGED <<out, ret>>
    /\ UNCHANGED <<world, db_url, sql, connectArgs, executeArgs, connOpen,
                   curOpen, exc, exitCode>>

(* lines 8-12: resolve the path, if not schema_path.exists(): return 1 *)
CheckExists ==
    /\ pc = "exists"
    /\ log' = Append(log, "exists")
    /\ IF ~fileExists
       THEN /\ out' = Append(out, MsgNotFound)
            /\ ret' = 1
            /\ pc' = "returned"
       ELSE /\ pc' = "read_text"
            /\ UNCHANGED <<out, ret>>
    /\ UNCHANGED <<world, db_url, sql, connectArgs, executeArgs, connOpen,
                   curOpen, exc, exitCode>>

(* line 14: sql = schema_path.read_text(encoding="utf-8") *)
ReadText ==
    /\ pc = "read_text"
    /\ log' = Append(log, "read_text")
    /\ IF ~fileReadable
       THEN /\ exc' = "OSError"
            /\ pc' = "raised"
            /\ UNCHANGED sql
       ELSE IF ~Utf8Valid(fileBytes)
       THEN /\ exc' = "UnicodeDecodeError"
            /\ pc' = "raised"
            /\ UNCHANGED sql
       ELSE /\ sql' = read_text(fileBytes)
            /\ pc' = "check_url"
            /\ UNCHANGED exc
    /\ UNCHANGED <<world, db_url, out, connectArgs, executeArgs, connOpen,
                   curOpen, ret, exitCode>>

(* variant: the "return 2" of line 22 missing *)
CheckDbUrl_NoReturn ==
    /\ pc = "check_url"
    /\ log' = Append(log, "check_url")
    /\ IF Falsy(db_url)
       THEN out' = out \o <<MsgNotSet, MsgOptionA, MsgExport, MsgRerun,
                            MsgOptionB>>
       ELSE UNCHANGED out
    /\ pc' = "import"
    /\ UNCHANGED <<world, db_url, sql, connectArgs, executeArgs, connOpen,
                   curOpen, exc, ret, exitCode>>

(* lines 16-22: if not db_url: print both options, return 2 *)
CheckDbUrl ==
    /\ pc = "check_url"
    /\ log' = Append(log, "check_url")
    /\ IF Falsy(db_url)
       THEN /\ out' = out \o <<MsgNotSet, MsgOptionA, MsgExport, MsgRerun,
                               MsgOptionB>>
            /\ ret' = 2
            /\ pc' = "returned"
       ELSE /\ pc' = "import"
            /\ UNCHANGED <<out, ret>>
    /\ UNCHANGED <<world, db_url, sql, connectArgs, executeArgs, connOpen,
                   curOpen, exc, exitCode>>

(* variant: the "return 3" of line 29 missing *)
ImportPsycopg_NoReturn ==
    /\ pc = "import"
    /\ log' = Append(log, "import")
    /\ IF ~libAvailable
       THEN out' = out \o <<MsgMissing, MsgInstall>>
       ELSE UNCHANGED out
    /\ pc' = "applying"
    /\ UNCHANGED <<world, db_url, sql, connectArgs, executeArgs, connOpen,
                   curOpen, exc, ret, exitCode>>

(* lines 24-29: try: import psycopg / except Exception: return 3           *)
(* (a failing import raises ImportError, a subclass of Exception)          *)
ImportPsycopg ==
    /\ pc = "import"
    /\ log' = Append(log, "import")
    /\ IF ~libAvailable
       THEN /\ out' = out \o <<MsgMissing, MsgInstall>>
            /\ ret' = 3
            /\ pc' = "returned"
       ELSE /\ pc' = "applying"
            /\ UNCHANGED <<out, ret>>
    /\ UNCHANGED <<world, db_url, sql, connectArgs, executeArgs, connOpen,
                   curOpen, exc, exitCode>>

(* line 31: print("Applying supabase/schema.sql ...") *)
PrintApplying ==
    /\ pc = "applying"
    /\ out' = Append(out, MsgApplying)
    /\ pc' = "connect"
    /\ UNCHANGED <<world, db_url, sql, log, connectArgs, executeArgs,
                   connOpen, curOpen, exc, ret, exitCode>>

(* variant: a failed connect is attempted a second time *)
Connect_Retry ==
    /\ pc = "connect"
    /\ log' = Append(log, "connect")
    /\ connectArgs' = Append(connectArgs, db_url)
    /\ \E ok \in BOOLEAN :
         IF ok
         THEN /\ connOpen' = connOpen + 1
              /\ pc' = "cursor"
              /\ UNCHANGED exc
         ELSE IF connectArgs = <<>>
         THEN /\ pc' = "connect"
              /\ UNCHANGED <<exc, connOpen>>
         ELSE /\ exc' = "ConnectError"
              /\ pc' = "raised"
              /\ UNCHANGED connOpen
    /\ UNCHANGED <<world, db_url, sql, out, executeArgs, curOpen, ret,
                   exitCode>>

(* line 33: with psycopg.connect(db_url) as conn -- entering the block *)
Connect ==
    /\ pc = "connect"
    /\ log' = Append(log, "connect")
    /\ connectArgs' = Append(connectArgs, db_url)
    /\ \E ok \in BOOLEAN :
         IF ok
         THEN /\ connOpen' = connOpen + 1
              /\ pc' = "cursor"
              /\ UNCHANGED exc
         ELSE /\ exc' = "ConnectError"
              /\ pc' = "raised"
              /\ UNCHANGED connOpen
    /\ UNCHANGED <<world, db_url, sql, out, executeArgs, curOpen, ret,
                   exitCode>>

(* line 34: with conn.cursor() as cur -- entering the block *)
Cursor ==
    /\ pc = "cursor"
    /\ log' = Append(log, "cursor")
    /\ \E ok \in BOOLEAN :
         IF ok
         THEN /\ curOpen' = curOpen + 1
              /\ pc' = "execute"
              /\ UNCHANGED exc
         ELSE /\ exc' = "CursorError"
              /\ pc' = "exit_conn"
              /\ UNCHANGED curOpen
    /\ UNCHANGED <<world, db_url, sql, out, connectArgs, executeArgs,
                   connOpen, ret, exitCode>>

(* variant: the last character of sql is dropped before execute *)
Execute_Truncated ==
    /\ pc = "execute"
    /\ log' = Append(log, "execute")
    /\ executeArgs' = Append(executeArgs, SubSeq(sql, 1, Len(sql) - 1))
    /\ \E ok \in BOOLEAN :
         IF ok
         THEN UNCHANGED exc
         ELSE exc' = "ExecuteError"
    /\ pc' = "exit_cur"
    /\ UNCHANGED <<world, db_url, sql, out, connectArgs, connOpen, curOpen,
                   ret, exitCode>>

(* line 35: cur.execute(sql) *)
Execute ==
    /\ pc = "execute"
    /\ log' = Append(log, "execute")
    /\ executeArgs' = Append(executeArgs, sql)
    /\ \E ok \in BOOLEAN :
         IF ok
         THEN UNCHANGED exc
         ELSE exc' = "ExecuteError"
    /\ pc' = "exit_cur"
    /\ UNCHANGED <<world, db_url, sql, out, connectArgs, connOpen, curOpen,
                   ret, exitCode>>

(* variant: conn.commit() in a finally clause, reached after a failed execute *)
ExitCursor_AlwaysCommit ==
    /\ pc = "exit_cur"
    /\ log' = Append(log, "close_cur")
    /\ curOpen' = curOpen - 1
    /\ pc' = "commit"
    /\ UNCHANGED <<world, db_url, sql, out, connectArgs, executeArgs,
                   connOpen, exc, ret, exitCode>>

(* line 34: leaving the cursor's with block, normally or by exception *)
ExitCursor ==
    /\ pc = "exit_cur"
    /\ log' = Append(log, "close_cur")
    /\ curOpen' = curOpen - 1
    /\ pc' = IF exc = "None" THEN "commit" ELSE "exit_conn"
    /\ UNCHANGED <<world, db_url, sql, out, connectArgs, executeArgs,
                   connOpen, exc, ret, exitCode>>

(* variant: line 36 missing, nothing is committed *)
Commit_Skipped ==
    /\ pc = "commit"
    /\ pc' = "exit_conn"
    /\ UNCHANGED <<world, db_url, sql, log, out, connectArgs, executeArgs,
                   connOpen, curOpen, exc, ret, exitCode>>

(* line 36: conn.commit() *)
Commit ==
    /\ pc = "commit"
    /\ \E ok \in BOOLEAN :
         IF ok
         THEN /\ log' = Append(log, "commit")
              /\ UNCHANGED exc
         ELSE /\ log' = Append(log, "commit_failed")
              /\ exc' = "CommitError"
    /\ pc' = "exit_conn"
    /\ UNCHANGED <<world, db_url, sql, out, connectArgs, executeArgs,
                   connOpen, curOpen, ret, exitCode>>

(* variant: no with block, the connection is closed on the normal path only *)
ExitConn_Leak ==
    /\ pc = "exit_conn"
    /\ IF exc = "None"
       THEN /\ log' = Append(log, "close_conn")
            /\ connOpen' = connOpen - 1
            /\ pc' = "done"
       ELSE /\ pc' = "raised"
            /\ UNCHANGED <<log, connOpen>>
    /\ UNCHANGED <<world, db_url, sql, out, connectArgs, executeArgs,
                   curOpen, exc, ret, exitCode>>

(* line 33: leaving the connection's with block, normally or by exception *)
ExitConn ==
    /\ pc = "exit_conn"
    /\ log' = Append(log, "close_conn")
    /\ connOpen' = connOpen - 1
    /\ pc' = IF exc = "None" THEN "done" ELSE "raised"
    /\ UNCHANGED <<world, db_url, sql, out, connectArgs, executeArgs,
                   curOpen, exc, ret, exitCode>>

(* lines 38-39: print("Done."); return 0 *)
PrintDone ==
    /\ pc = "done"
    /\ out' = Append(out, MsgDone)
    /\ ret' = 0
    /\ pc' = "returned"
    /\ UNCHANGED <<world, db_url, sql, log, connectArgs, executeArgs,
                   connOpen, curOpen, exc, exitCode>>

(* line 43: raise SystemExit(main()) when main() returned *)
ExitReturned ==
    /\ pc = "returned"
    /\ exitCode' = ret
    /\ pc' = "exited"
    /\ UNCHANGED <<world, db_url, sql, log, out, connectArgs, executeArgs,
                   connOpen, curOpen, exc, ret>>

(* line 43: main() raised; the interpreter reports the uncaught exception *)
ExitUncaught ==
    /\ pc = "raised"
    /\ exitCode' = UncaughtExitStatus
    /\ pc' = "exited"
    /\ UNCHANGED <<world, db_url, sql, log, out, connectArgs, executeArgs,
                   connOpen, curOpen, exc, ret>>

Next ==
    \/ GetEnv
    \/ CheckExists
    \/ ReadText
    \/ CheckDbUrl
    \/ ImportPsycopg
    \/ PrintApplying
    \/ Connect
    \/ Cursor
    \/ Execute
    \/ ExitCursor
    \/ Commit
    \/ ExitConn
    \/ PrintDone
    \/ ExitReturned
    \/ ExitUncaught

Spec == Init /\ [][Next]_vars

-----------------------------------------------------------------------------
(* Helpers over the history *)

Did(op) == \E i \in 1..Len(log) : log[i] = op

Count(op) == Cardinality({i \in 1..Len(log) : log[i] = op})

Pos(op) == IF Did(op) THEN CHOOSE i \in 1..Len(log) : log[i] = op ELSE 0

Before(a, b) == Did(b) => (Did(a) /\ Pos(a) < Pos(b))

Printed(m) == \E i \in 1..Len(out) : out[i] = m

DbOps == {"import", "connect", "cursor", "execute", "commit", "commit_failed"}

NoDbAccess == \A op \in DbOps : ~Did(op)

Terminated == pc = "exited"

TypeOK ==
    /\ pc \in {"getenv", "exists", "read_text", "check_url", "import",
               "applying", "connect", "cursor", "execute", "exit_cur",
               "commit", "exit_conn", "done", "returned", "raised", "exited"}
    /\ ret \in {-1, 0, 1, 2, 3}
    /\ exitCode \in {-1, 0, 1, 2, 3}
    /\ connOpen \in {0, 1}
    /\ curOpen \in {0, 1}

Readable == fileExists /\ fileReadable /\ Utf8Valid(fileBytes)

DbErrors == {"ConnectError", "CursorError", "ExecuteError", "CommitError"}

CommitAttempted == Did("commit") \/ Did("commit_failed")

Outcome ==
    IF exc # "None" THEN "uncaught"
    ELSE IF ~fileExists THEN "schema_missing"
    ELSE IF Falsy(db_url) THEN "url_missing"
    ELSE IF ~libAvailable THEN "lib_missing"
    ELSE "success"

-----------------------------------------------------------------------------
C2_CheckOrder ==
    /\ Before("exists", "check_url")
    /\ Before("check_url", "import")
    /\ \A op \in DbOps \ {"import"} : Before("import", op)
    /\ ~fileExists => (~Did("check_url") /\ NoDbAccess)
    /\ Falsy(environ) => NoDbAccess
    /\ ~libAvailable => \A op \in DbOps \ {"import"} : ~Did(op)
    /\ \A op \in {"exists", "check_url", "import", "connect"} : Count(op) <= 1

C2_Witness == Did("connect") /\ Terminated

(* C3: with a readable schema file and SUPABASE_DB_URL unset or empty,     *)
(* main() returns 2 after printing Option A and Option B, and neither the  *)
(* import nor a connection is attempted.                                   *)
C3_MissingUrlExitsTwo ==
    (Readable /\ (environ = None \/ environ = "")) =>
        /\ NoDbAccess
        /\ ret \in {-1, 2}
        /\ ret = 2 => (Printed(MsgOptionA) /\ Printed(MsgOptionB)
                       /\ Printed(MsgNotSet))
        /\ Terminated => (exitCode = 2 /\ ret = 2)

C3_Witness == Readable /\ environ = "" /\ Terminated /\ exitCode = 2

(* C4: with a readable schema file, a non-empty SUPABASE_DB_URL and a      *)
(* failing import of psycopg, main() returns 3 after printing the install  *)
(* instruction, and no connect, execute or commit is attempted.            *)
C4_MissingLibExitsThree ==
    (Readable /\ environ \notin {None, ""} /\ ~libAvailable) =>
        /\ \A op \in DbOps \ {"import"} : ~Did(op)
        /\ connectArgs = <<>> /\ executeArgs = <<>>
        /\ ret \in {-1, 3}
        /\ ret = 3 => (Printed(MsgMissing) /\ Printed(MsgInstall))
        /\ Terminated => (exitCode = 3 /\ ret = 3)

C4_Witness ==
    Readable /\ environ = "postgres://b" /\ ~libAvailable /\ Terminated
    /\ Did("import")

(* C5: when every check passes and connect, execute and commit succeed,    *)
(* one run opens exactly one connection, issues exactly one execute whose  *)
(* argument is the full text of the file, commits after that execute,      *)
(* prints "Done." and exits with code 0.                                   *)
C5_SuccessAppliesOnce ==
    (Terminated /\ Did("connect") /\ exc = "None") =>
        /\ Count("connect") = 1
        /\ Len(connectArgs) = 1
        /\ Count("execute") = 1
        /\ executeArgs = <<read_text(fileBytes)>>
        /\ Count("commit") = 1
        /\ Pos("connect") < Pos("execute")
        /\ Pos("execute") < Pos("commit")
        /\ out = <<MsgApplying, MsgDone>>
        /\ ret = 0
        /\ exitCode = 0

C5_Witness ==
    Terminated /\ exitCode = 0 /\ Did("commit") /\ fileBytes = <<SEMI, SEMI>>

(* C6 as stated: every terminated run is in exactly one of the five        *)
(* outcomes and the exit code alone identifies it: 0 success, 1 schema     *)
(* file missing, 2 connection string missing, 3 client library missing,    *)
(* and a code different from all of these for an uncaught failure.         *)
C6_ExitCodeIdentifiesOutcome ==
    Terminated =>
        /\ exitCode = 0 <=> Outcome = "success"
        /\ exitCode = 1 <=> Outcome = "schema_missing"
        /\ exitCode = 2 <=> Outcome = "url_missing"
        /\ exitCode = 3 <=> Outcome = "lib_missing"
        /\ Outcome = "uncaught" => exitCode \notin {0, 1, 2, 3}

(* C7: every argument of execute is the complete decoded text of the       *)
(* schema file, and every argument of connect is the value of              *)
(* SUPABASE_DB_URL unchanged.                                              *)
C7_ArgumentsVerbatim ==
    /\ \A i \in 1..Len(executeArgs) : executeArgs[i] = read_text(fileBytes)
    /\ \A i \in 1..Len(connectArgs) : connectArgs[i] = environ
    /\ Did("read_text") /\ pc \notin {"read_text", "raised", "exited"}
         => sql = read_text(fileBytes)

C7_Witness == Len(executeArgs) = 1 /\ fileBytes = <<CR, LF>>

(* C8: on every way out of the connect/execute/commit block the cursor and *)
(* the connection that were acquired are released: a terminated run holds  *)
(* no open cursor or connection, and the cursor is released before the     *)
(* connection.                                                             *)
C8_ResourcesReleased ==
    /\ pc \in {"done", "returned", "raised", "exited"}
         => (connOpen = 0 /\ curOpen = 0)
    /\ curOpen <= connOpen
    /\ Did("execute") /\ Did("close_conn")
         => (Did("close_cur") /\ Pos("close_cur") < Pos("close_conn"))
    /\ Count("close_cur") <= 1 /\ Count("close_conn") <= 1

C8_Witness ==
    Terminated /\ exc = "CommitError" /\ Did("close_cur") /\ Did("close_conn")

(* C9: a failure of connect, execute or commit is not caught and not       *)
(* retried: there is at most one connect and one execute per run, the      *)
(* exception stays in flight until the process ends with a non-zero        *)
(* status, and main() returns no value.                                    *)
C9_DbFailureFatal ==
    /\ [](/\ Count("connect") <= 1
          /\ Count("execute") <= 1
          /\ Len(connectArgs) <= 1
          /\ Len(executeArgs) <= 1
          /\ exc \in DbErrors =>
               /\ ret = -1
               /\ ~Printed(MsgDone)
               /\ pc \in {"exit_cur", "exit_conn", "raised", "exited"}
               /\ Terminated => exitCode \notin {-1, 0})
    /\ [][exc # "None" => exc' = exc]_vars

C9_Witness == Terminated /\ exc = "ConnectError" /\ exitCode = 1

(* C10: commit is attempted only after execute returned without error and  *)
(* the cursor block was left; after a failed execute no commit is          *)
(* attempted; "Done." is printed and 0 returned only when the commit       *)
(* succeeded; "Applying ..." is printed before the connection attempt and  *)
(* only when all three checks passed.                                      *)
C10_CommitAndMessages ==
    /\ CommitAttempted =>
         /\ Did("execute") /\ Did("close_cur")
         /\ Pos("execute") < Pos("close_cur")
         /\ \A i \in 1..Len(log) :
              log[i] \in {"commit", "commit_failed"} => Pos("close_cur") < i
         /\ exc \in {"None", "CommitError"}
    /\ exc = "ExecuteError" => ~CommitAttempted
    /\ Printed(MsgDone) => (Did("commit") /\ exc = "None")
    /\ ret = 0 => (Printed(MsgDone) /\ Did("commit") /\ exc = "None")
    /\ Did("connect") => Printed(MsgApplying)
    /\ Printed(MsgApplying) =>
         /\ fileExists /\ ~Falsy(db_url) /\ libAvailable
         /\ Did("exists") /\ Did("check_url") /\ Did("import")

C10_Witness == Terminated /\ exc = "ExecuteError" /\ Printed(MsgApplying)

====
